---------------------------- MODULE Spec2Model ----------------------------
(***************************************************************************)
(* A model of the brc aggregation pipeline: the 64-byte vectorized         *)
(* scanner and comparator (memops.rs), the end-anchored temperature        *)
(* parser and the batched driver (main.rs), the inline station key, its    *)
(* hash and the pass-through hasher (station_map.rs), the aggregate cell   *)
(* (temperature_summary.rs) and the mmap allocator (mmap_allocator.rs).    *)
(*                                                                         *)
(* Bytes are naturals 0..255.  A slice is modelled by the 64 bytes that a  *)
(* vector load can reach from its first byte (its "window") together with  *)
(* its logical length, because the scanner and the comparator read the     *)
(* window whatever the length of the slice is.                             *)
(***************************************************************************)
EXTENDS Integers, Sequences, FiniteSets, TLC

VARIABLES
    input,        \* ghost: the records the input file was written from
    terminated,   \* ghost: whether the last record ends with a newline
    mmap,         \* the mapped bytes of the input file
    cursor,       \* batched_process_lines: offset of the next record (0-based)
    pc,           \* position of the run
    slices,       \* batched_process_lines: the lines of the batch being collected
    temperatures, \* the station map: owned key -> TemperatureSummary
    summaries,    \* the sorted WeatherStation sequence handed to the caller
    ret,          \* what temperature_reading_summaries returned: "none", "Ok", "Err"
    fatal,        \* ghost: the fatal condition that occurred, "none" if none
    call          \* a call of one of the pure functions: its arguments and result

vars == <<input, terminated, mmap, cursor, pc, slices, temperatures,
          summaries, ret, fatal, call>>

---------------------------------------------------------------------------
(* Byte values the code names.                                             *)

NEWLINE == 10
SEMICOLON == 59
MINUS == 45
DOT == 46
ZERO == 48

\* Width of one AVX2 load (__m256i) and of the two-load window.
VEC == 32
WINDOW == 64

INLINE_STRING_SIZE == 56

Min(a, b) == IF a <= b THEN a ELSE b
Max(a, b) == IF a >= b THEN a ELSE b

\* n copies of byte b.
Rep(b, n) == [i \in 1..n |-> b]

\* The bytes of s from 0-based offset `from` on (slice.get_unchecked(from..)).
From(s, from) == SubSeq(s, from + 1, Len(s))

\* The first n bytes of s.
Take(s, n) == SubSeq(s, 1, n)

---------------------------------------------------------------------------
(* memops.rs                                                               *)

\* _mm256_movemask_epi8(_mm256_cmpeq_epi8(load(w), set1(needle))): the set of
\* bit positions 0..31 whose byte of w equals the needle.
NeedleMask(w, needle) == {i \in 0..(VEC - 1) : w[i + 1] = needle}

\* u32::trailing_zeros: the lowest set bit, 32 for the zero mask.
TrailingZeros(mask) ==
    IF mask = {} THEN VEC
    ELSE CHOOSE i \in mask : \A j \in mask : i <= j

\* u32::trailing_ones: the number of consecutive set bits from bit 0.
TrailingOnes(mask) ==
    IF \A i \in 0..(VEC - 1) : i \in mask THEN VEC
    ELSE CHOOSE i \in 0..(VEC - 1) : i \notin mask /\ \A j \in 0..(i - 1) : j \in mask

memchr32_unchecked(w, needle) == TrailingZeros(NeedleMask(w, needle))

\* A variant that forgets to add the offset of the second half.
memchr64_no_offset(w, needle) ==
    LET r == memchr32_unchecked(w, needle)
    IN  IF r < VEC THEN r ELSE memchr32_unchecked(From(w, VEC), needle)

\* w is the 64-byte window at the start of the haystack.
memchr64_unchecked(w, needle) ==
    LET r == memchr32_unchecked(w, needle)
    IN  IF r < VEC THEN r ELSE VEC + memchr32_unchecked(From(w, VEC), needle)

\* _mm256_movemask_epi8(_mm256_cmpeq_epi8(load(a), load(b))).
EqMask(wa, wb) == {i \in 0..(VEC - 1) : wa[i + 1] = wb[i + 1]}

\* wa, wb: the windows of a and b; la, lb: a.len() and b.len().
memeq32_unchecked(wa, la, wb, lb) ==
    la = lb /\ TrailingOnes(EqMask(wa, wb)) >= Min(la, VEC)

\* A variant that never compares the second 32 bytes.
memeq64_first_half(wa, la, wb, lb) == memeq32_unchecked(wa, la, wb, lb)

memeq64_unchecked(wa, la, wb, lb) ==
    LET res == memeq32_unchecked(wa, la, wb, lb)
    IN  IF la <= VEC THEN res
        ELSE res /\ memeq32_unchecked(From(wa, VEC), la - VEC, From(wb, VEC), lb - VEC)

---------------------------------------------------------------------------
(* main.rs: the fixed-format parser                                        *)

\* u8::wrapping_sub(b'0') as i32.
digit_to_i32(d) == (d - ZERO) % 256

\* line: the bytes of the record without its newline, at least 5 of them
\* (the shortest record is k;d.d), so that the four reads stay in the line.
\* c0, c1, c2, c3 are the bytes at p, p-2, p-3, p-4 with p the last byte.
parse_temperature(line) ==
    LET n  == Len(line)
        c0 == line[n]
        c1 == line[n - 2]
        c2 == line[n - 3]
        c3 == line[n - 4]
        is_two_digits == (c2 = SEMICOLON) \/ (c2 = MINUS)
        is_negative   == (c3 = MINUS) \/ (c2 = MINUS)
        \* hundreds.cmovnz(&0, is_two_digits)
        hundreds == IF is_two_digits THEN 0 ELSE digit_to_i32(c2)
        result   == 10 * (10 * hundreds + digit_to_i32(c1)) + digit_to_i32(c0)
    \* result.cmovnz(&negative_result, is_negative)
    IN  IF is_negative THEN -result ELSE result

---------------------------------------------------------------------------
(* temperature_summary.rs                                                  *)

\* TemperatureSummary::of
SummaryOf(temp) == [min |-> temp, max |-> temp, total |-> temp, count |-> 1]

add_reading(s, temp) ==
    [min   |-> Min(s.min, temp),
     max   |-> Max(s.max, temp),
     total |-> s.total + temp,
     count |-> s.count + 1]

\* A variant that adds nothing before dividing (rounds down).
avg_floor(s) == s.total \div s.count

\* avg() in tenths: the integer that avg() divides by 10.0.  count / 2 is
\* i32 division of a positive count, div_euclid by a positive count is the
\* floor; \div is the floor as well.
avg(s) ==
    LET rounded_total == s.total + (s.count \div 2)
    IN  rounded_total \div s.count

---------------------------------------------------------------------------
(* 64-bit unsigned arithmetic on 8 little-endian bytes (TLC's integers are *)
(* 32 bits wide).                                                          *)

RECURSIVE Pow256(_)
Pow256(i) == IF i = 0 THEN 1 ELSE 256 * Pow256(i - 1)

\* n as u64, for 0 <= n < 2^31.
U64(n) == [i \in 1..8 |-> IF i <= 4 THEN (n \div Pow256(i - 1)) % 256 ELSE 0]

RECURSIVE XorBits(_, _, _)
XorBits(a, b, k) ==
    IF k = 0 THEN 0
    ELSE (((a % 2) + (b % 2)) % 2) + 2 * XorBits(a \div 2, b \div 2, k - 1)

\* a ^ b on bytes.
XorByte(a, b) == IF a = 0 THEN b ELSE IF b = 0 THEN a ELSE XorBits(a, b, 8)

Xor64(a, b) == [i \in 1..8 |-> XorByte(a[i], b[i])]

\* a | b = (a ^ b) + (a & b), and a + b = (a ^ b) + 2 * (a & b).
Or64(a, b) ==
    [i \in 1..8 |-> LET x == XorByte(a[i], b[i])
                    IN  x + ((a[i] + b[i] - x) \div 2)]

\* (b as u64) << (8 * k)
ShlBytes(b, k) == [i \in 1..8 |-> IF i = k + 1 THEN b ELSE 0]

\* h >> 32
Shr32(h) == [i \in 1..8 |-> IF i <= 4 THEN h[i + 4] ELSE 0]

RECURSIVE MulColumn(_, _, _, _)
MulColumn(a, b, k, i) ==
    IF i > k THEN 0 ELSE a[i + 1] * b[k - i + 1] + MulColumn(a, b, k, i + 1)

RECURSIVE MulFrom(_, _, _, _)
MulFrom(a, b, k, carry) ==
    IF k = 8 THEN <<>>
    ELSE LET s == carry + MulColumn(a, b, k, 0)
         IN  <<s % 256>> \o MulFrom(a, b, k + 1, s \div 256)

\* u64::wrapping_mul
WrappingMul(a, b) == MulFrom(a, b, 0, 0)

---------------------------------------------------------------------------
(* station_map.rs                                                          *)

\* 0xf1357aea2e62a9c5, low byte first.
SEED == <<197, 169, 98, 46, 234, 122, 53, 241>>

\* bytes: the logical bytes of the key, at least one.
hash64(bytes) ==
    LET len == Len(bytes)
        b0 == bytes[1]
        b1 == bytes[(len \div 4) + 1]
        b2 == bytes[(len \div 2) + 1]
        b3 == bytes[len]
        x  == Or64(Or64(ShlBytes(b0, 7), ShlBytes(b1, 6)),
                   Or64(ShlBytes(b2, 5), ShlBytes(b3, 4)))
        h0 == Xor64(x, U64(len))
        h1 == WrappingMul(h0, SEED)
        h2 == Xor64(h1, Shr32(h1))
        h3 == WrappingMul(h2, SEED)
    IN  Xor64(h3, Shr32(h3))

\* StationNameKeyView::hash_u64
hash_u64(name) == hash64(name)

\* NopHasher: the state is the u64 written last; default() is zero.
NopHasherDefault == U64(0)
\* A variant that mixes the written value once more.
NopHasher_write_u64_mixing(state, i) == WrappingMul(Xor64(state, i), SEED)

NopHasher_write_u64(state, i) == i
NopHasher_finish(state) == state

\* <StationNameKeyView as Hash>::hash into a fresh NopHasher, then finish():
\* what the table derives for get_mut and insert.
ViewHash(name) ==
    NopHasher_finish(NopHasher_write_u64(NopHasherDefault, hash_u64(name)))

\* InlineString::new for a name that fits: the name, then zeros.
InlineString_new(s) ==
    [data |-> [i \in 1..INLINE_STRING_SIZE |-> IF i <= Len(s) THEN s[i] ELSE 0],
     len  |-> Len(s)]

\* The 64 bytes at the address of an owned key: #[repr(packed)] puts the
\* little-endian len right after the 56 data bytes.
KeyWindow(k) == k.data \o U64(k.len)

\* InlineString::as_str: data.get_unchecked(..len).
as_str(k) == Take(KeyWindow(k), k.len)

\* <StationNameKey as Hash>::hash: the hash of its view.
KeyHash(k) == ViewHash(as_str(k))

---------------------------------------------------------------------------
(* The input grammar: values [-]d[d].d                                      *)

\* The text of the value sign (int).(frac): one digit for int < 10, else two.
ValueText(neg, int, frac) ==
    (IF neg THEN <<MINUS>> ELSE <<>>)
    \o (IF int >= 10 THEN <<ZERO + (int \div 10)>> ELSE <<>>)
    \o <<ZERO + (int % 10), DOT, ZERO + frac>>

\* The value in tenths.
ValueTenths(neg, int, frac) ==
    IF neg THEN -(10 * int + frac) ELSE 10 * int + frac

---------------------------------------------------------------------------
(* station_map.rs, hashbrown: the station map                              *)
(*                                                                         *)
(* The map is a function from owned keys to summaries.  A lookup finds the *)
(* entry whose key has the probed hash and satisfies the equality given;   *)
(* hashbrown's control bytes, probe sequence and growth are not modelled   *)
(* (the 12 500 reserved slots are never exhausted by the inputs below).    *)

EmptyMap == [k \in {} |-> SummaryOf(0)]

\* A line handed to the callback: the 64-byte window at its first byte and
\* its length, with the delimiter offset and the temperature the callback
\* computes from it.
LineOf(w, n) ==
    [w     |-> w,
     n     |-> n,
     delim |-> memchr64_unchecked(w, SEMICOLON),
     temp  |-> parse_temperature(Take(w, n))]

\* lines[i].get_unchecked(..delim_idx)
Station(l) == Take(l.w, l.delim)

\* raw_entry().from_hash(hash, |k| k.view() == StationNameKeyView::new(station))
from_hash(t, hash, l) ==
    {k \in DOMAIN t :
        /\ memeq64_unchecked(KeyWindow(k), k.len, l.w, l.delim)
        /\ KeyHash(k) = hash}

\* get_mut(StationNameKeyView::new(station))
get_mut(t, l) ==
    {k \in DOMAIN t :
        /\ memeq64_unchecked(l.w, l.delim, KeyWindow(k), k.len)
        /\ KeyHash(k) = ViewHash(Station(l))}

\* HashMap::insert: the value of an equal key is replaced, else the entry
\* is added.
insert(t, key, v) ==
    LET hit == {k \in DOMAIN t :
                   /\ memeq64_unchecked(KeyWindow(key), key.len, KeyWindow(k), k.len)
                   /\ KeyHash(k) = KeyHash(key)}
    IN  IF hit # {}
        THEN [k \in DOMAIN t |-> IF k \in hit THEN v ELSE t[k]]
        ELSE [k \in DOMAIN t \cup {key} |-> IF k = key THEN v ELSE t[k]]

\* StationNameKey::new.  A station longer than the inline capacity makes
\* InlineString::new write past `data` (undefined behaviour); the outcome
\* kept here stores the first 56 bytes and the length, the trap is
\* CallbackTrap below.
StationNameKey_new(station) == InlineString_new(station)

\* v.add_reading(temperature) on the entry a lookup found, if any.
AddIfFound(t, found, temp) ==
    IF found = {} THEN t
    ELSE [k \in DOMAIN t |-> IF k \in found THEN add_reading(t[k], temp) ELSE t[k]]

\* The single-record branch of the callback.
ProcessSingle(t, l) ==
    LET v == get_mut(t, l)
    IN  IF v # {} THEN AddIfFound(t, v, l.temp)
        ELSE insert(t, StationNameKey_new(Station(l)), SummaryOf(l.temp))

\* The 4-record branch of the callback: the four lookups, add_reading on
\* the hits, then the inserts.
ProcessBatch(t, l0, l1, l2, l3) ==
    LET e0 == from_hash(t, hash_u64(Station(l0)), l0)
        e1 == from_hash(t, hash_u64(Station(l1)), l1)
        e2 == from_hash(t, hash_u64(Station(l2)), l2)
        e3 == from_hash(t, hash_u64(Station(l3)), l3)
        e0_found == e0 # {}
        e1_found == e1 # {}
        e2_found == e2 # {}
        e3_found == e3 # {}
        a0 == AddIfFound(t, e0, l0.temp)
        a1 == AddIfFound(a0, e1, l1.temp)
        a2 == AddIfFound(a1, e2, l2.temp)
        a3 == AddIfFound(a2, e3, l3.temp)
        i0 == IF ~e0_found \/ ~e1_found \/ ~e2_found \/ ~e3_found
              THEN insert(a3, StationNameKey_new(Station(l0)), SummaryOf(l0.temp))
              ELSE a3
        i1 == IF ~e1_found
              THEN insert(i0, StationNameKey_new(Station(l1)), SummaryOf(l1.temp))
              ELSE i0
        i2 == IF ~e2_found
              THEN insert(i1, StationNameKey_new(Station(l2)), SummaryOf(l2.temp))
              ELSE i1
    IN  IF ~e3_found
        THEN insert(i2, StationNameKey_new(Station(l3)), SummaryOf(l3.temp))
        ELSE i2

\* Whether the batch constructs a key longer than the inline capacity: the
\* key of a line whose lookup missed, or of the first line when any missed.
BatchOverlong(t, ls) ==
    LET missed(i) == from_hash(t, hash_u64(Station(ls[i])), ls[i]) = {}
    IN  \E i \in 1..Len(ls) :
            /\ ls[i].delim > INLINE_STRING_SIZE
            /\ \/ missed(i)
               \/ (i = 1 /\ \E j \in 1..Len(ls) : missed(j))

\* byte-wise order of String
RECURSIVE LexLess(_, _)
LexLess(a, b) ==
    IF b = <<>> THEN FALSE
    ELSE IF a = <<>> THEN TRUE
    ELSE IF a[1] # b[1] THEN a[1] < b[1]
    ELSE LexLess(Tail(a), Tail(b))

RECURSIVE SortedStations(_)
SortedStations(S) ==
    IF S = {} THEN <<>>
    ELSE LET m == CHOOSE x \in S : \A y \in S : ~LexLess(y.name, x.name)
         IN  <<m>> \o SortedStations(S \ {m})

\* into_iter().map(|(station, summary)| WeatherStation {..}).sorted_unstable()
Drained(t) ==
    SortedStations({[name |-> as_str(k), summary |-> t[k]] : k \in DOMAIN t})

---------------------------------------------------------------------------
(* mmap_allocator.rs                                                       *)

\* MmapAllocator::allocate: os_maps says whether libc::mmap returned a
\* mapping (anything but MAP_FAILED).
MmapAllocator_allocate(os_maps) == IF os_maps THEN "Ok" ELSE "AllocError"

---------------------------------------------------------------------------
(* main.rs: the input files                                                *)

\* The batch size N of batched_process_lines::<4, _>.
N == 4

\* mmap.len() & !1023
ALIGN == 1024
mmap_boundary == Len(mmap) - (Len(mmap) % ALIGN)

\* A record of the input: a key of k.n copies of byte k.c and a value.
KeyBytes(k) == Rep(k.c, k.n)

RecordLine(r) ==
    KeyBytes(r.key) \o <<SEMICOLON>> \o ValueText(r.val.neg, r.val.int, r.val.frac)

RECURSIVE FileBytes(_, _)
FileBytes(recs, term) ==
    IF recs = <<>> THEN <<>>
    ELSE RecordLine(Head(recs))
         \o (IF Len(recs) > 1 \/ term THEN <<NEWLINE>> ELSE <<>>)
         \o FileBytes(Tail(recs), term)

\* Input files: none or LongRecords records with keys of the full inline
\* capacity, whose key letters repeat one of KeyPatterns and whose values
\* repeat LongValues, then up to MaxShort records with one-letter keys.
LongRecords == 17
MaxShort == 4

KeyPatterns == {<<65, 65, 65, 65>>, <<65, 66, 65, 66>>,
                <<65, 66, 67, 68>>, <<65, 65, 66, 66>>}

Val(neg, int, frac) == [neg |-> neg, int |-> int, frac |-> frac]

LongValues == <<Val(FALSE, 1, 0), Val(TRUE, 9, 9), Val(FALSE, 20, 5)>>
ShortValues == <<Val(FALSE, 3, 0), Val(TRUE, 4, 5), Val(FALSE, 99, 9)>>

LongPart(pattern, n) ==
    [i \in 1..n |->
        [key |-> [c |-> pattern[((i - 1) % 4) + 1], n |-> INLINE_STRING_SIZE],
         val |-> LongValues[((i - 1) % 3) + 1]]]

ShortPart(letters) ==
    [i \in 1..Len(letters) |->
        [key |-> [c |-> letters[i], n |-> 1],
         val |-> ShortValues[((i - 1) % 3) + 1]]]

ShortLetters == UNION {[1..t -> {65, 69}] : t \in 0..MaxShort}

Inputs ==
    {LongPart(p, n) \o ShortPart(ls) :
        p \in KeyPatterns, n \in {0, LongRecords}, ls \in ShortLetters} \ {<<>>}

\* The byte at 0-based offset i of the mapping; past the mapped length, the
\* zero fill of the last page (the other outcome, a fault, is ScanTrap).
MmapByte(i) == IF i < Len(mmap) THEN mmap[i + 1] ELSE 0

MmapWindow(off) == [j \in 1..WINDOW |-> MmapByte(off + j - 1)]

\* `data`: [0; 64] with the first min(remaining, 64) bytes copied in.
Scratch(off) ==
    [j \in 1..WINDOW |-> IF off + j - 1 < Len(mmap) THEN mmap[off + j] ELSE 0]

---------------------------------------------------------------------------
(* main.rs: temperature_reading_summaries and batched_process_lines        *)

\* No pure-function call is in progress in a run of the pipeline.
NoCall == [fn |-> "none"]

Init ==
    /\ input \in Inputs
    /\ terminated \in BOOLEAN
    /\ mmap = FileBytes(input, terminated)
    /\ cursor = 0
    /\ pc = "open"
    /\ slices = <<>>
    /\ temperatures = EmptyMap
    /\ summaries = <<>>
    /\ ret = "none"
    /\ fatal = "none"
    /\ call = NoCall

\* Where batched_process_lines goes on from offset c: the bulk loop while
\* c < mmap_boundary, then the tail loop while c < mmap.len(), then Ok(()).
Phase(c) ==
    IF c < mmap_boundary THEN "bulk"
    ELSE IF c < Len(mmap) THEN "tail"
    ELSE "drain"

\* File::open(input_path).map_err(..)?
OpenFile ==
    /\ pc = "open"
    /\ \E opened \in BOOLEAN :
         IF opened
         THEN pc' = "new_map" /\ UNCHANGED <<ret, fatal>>
         ELSE pc' = "returned" /\ ret' = "Err" /\ fatal' = "open"
    /\ UNCHANGED <<input, terminated, mmap, cursor, slices, temperatures,
                   summaries, call>>

\* new_station_map: with_capacity_and_hasher_in allocates the table through
\* MmapAllocator.  It returns the map, not a Result: on AllocError hashbrown
\* calls handle_alloc_error, which aborts the process.
NewStationMap ==
    /\ pc = "new_map"
    /\ \E os_maps \in BOOLEAN :
         IF MmapAllocator_allocate(os_maps) = "Ok"
         THEN pc' = "map_file" /\ temperatures' = EmptyMap /\ UNCHANGED fatal
         ELSE pc' = "aborted" /\ fatal' = "alloc" /\ UNCHANGED temperatures
    /\ UNCHANGED <<input, terminated, mmap, cursor, slices, summaries, ret, call>>

\* A variant that goes on to the loops when the mapping failed.
MapFileUnchecked ==
    /\ pc = "map_file"
    /\ \E mapped \in BOOLEAN :
         /\ cursor' = 0
         /\ pc' = Phase(0)
         /\ fatal' = IF mapped THEN fatal ELSE "mmap"
         /\ UNCHANGED ret
    /\ UNCHANGED <<input, terminated, mmap, slices, temperatures, summaries, call>>

\* MmapOptions::new().map(&file)? and mmap.advise(Sequential)?, then
\* cursor = 0 and the first loop test.
MapFile ==
    /\ pc = "map_file"
    /\ \E mapped \in BOOLEAN :
         IF mapped
         THEN cursor' = 0 /\ pc' = Phase(0) /\ UNCHANGED <<ret, fatal>>
         ELSE pc' = "returned" /\ ret' = "Err" /\ fatal' = "mmap" /\ UNCHANGED cursor
    /\ UNCHANGED <<input, terminated, mmap, slices, temperatures, summaries, call>>

\* One pass of `for i in 0..N`: scan for the newline in the window at the
\* cursor, keep the line, move the cursor past the newline.
BulkScan ==
    /\ pc = "bulk"
    /\ Len(slices) < N
    /\ LET newline_idx == memchr64_unchecked(MmapWindow(cursor), NEWLINE)
       IN  /\ slices' = Append(slices, [off |-> cursor, len |-> newline_idx])
           /\ cursor' = cursor + newline_idx + 1
    /\ UNCHANGED <<input, terminated, mmap, pc, temperatures, summaries, ret,
                   fatal, call>>

\* The 64-byte load of a bulk scan reaches past the mapping: where the file
\* ends on a page boundary the access faults.
ScanTrap ==
    /\ pc = "bulk"
    /\ Len(slices) < N
    /\ cursor + WINDOW > Len(mmap)
    /\ pc' = "trap"
    /\ UNCHANGED <<input, terminated, mmap, cursor, slices, temperatures,
                   summaries, ret, fatal, call>>

BatchLines == [i \in 1..Len(slices) |-> LineOf(MmapWindow(slices[i].off), slices[i].len)]

\* callback(&slices) with N lines, then the loop test.
BulkCallback ==
    /\ pc = "bulk"
    /\ Len(slices) = N
    /\ LET ls == BatchLines
       IN  temperatures' = ProcessBatch(temperatures, ls[1], ls[2], ls[3], ls[4])
    /\ slices' = <<>>
    /\ pc' = Phase(cursor)
    /\ UNCHANGED <<input, terminated, mmap, cursor, summaries, ret, fatal, call>>

\* The batch constructs a key longer than the inline capacity: the write
\* past `data` may as well end the process.
CallbackTrap ==
    /\ pc = "bulk"
    /\ Len(slices) = N
    /\ BatchOverlong(temperatures, BatchLines)
    /\ pc' = "trap"
    /\ UNCHANGED <<input, terminated, mmap, cursor, slices, temperatures,
                   summaries, ret, fatal, call>>

\* One pass of the tail loop: copy into the zeroed scratch, scan, call back
\* with the one line, move the cursor, test the loop.
TailStep ==
    /\ pc = "tail"
    /\ LET data == Scratch(cursor)
           newline_idx == memchr64_unchecked(data, NEWLINE)
       IN  /\ temperatures' = ProcessSingle(temperatures, LineOf(data, newline_idx))
           /\ cursor' = cursor + newline_idx + 1
           /\ pc' = IF cursor + newline_idx + 1 < Len(mmap) THEN "tail" ELSE "drain"
    /\ UNCHANGED <<input, terminated, mmap, slices, summaries, ret, fatal, call>>

\* get_unchecked(..newline_idx) past the end of the copied slice: a build
\* with the library's precondition checks stops here.
TailTrap ==
    /\ pc = "tail"
    /\ memchr64_unchecked(Scratch(cursor), NEWLINE) > Min(Len(mmap) - cursor, WINDOW)
    /\ pc' = "trap"
    /\ UNCHANGED <<input, terminated, mmap, cursor, slices, temperatures,
                   summaries, ret, fatal, call>>

\* Ok(temperatures.into_iter().map(..).sorted_unstable())
Drain ==
    /\ pc = "drain"
    /\ summaries' = Drained(temperatures)
    /\ temperatures' = EmptyMap
    /\ ret' = "Ok"
    /\ pc' = "returned"
    /\ UNCHANGED <<input, terminated, mmap, cursor, slices, fatal, call>>

Next ==
    \/ OpenFile
    \/ NewStationMap
    \/ MapFile
    \/ BulkScan
    \/ ScanTrap
    \/ BulkCallback
    \/ CallbackTrap
    \/ TailStep
    \/ TailTrap
    \/ Drain

Spec == Init /\ [][Next]_vars

---------------------------------------------------------------------------
(* Claims about the pipeline.                                              *)

\* The keys of the input records and the records carrying a key.
InputKeys == {KeyBytes(input[i].key) : i \in 1..Len(input)}
Occurrences(name) == {i \in 1..Len(input) : KeyBytes(input[i].key) = name}
Tenths(i) == ValueTenths(input[i].val.neg, input[i].val.int, input[i].val.frac)

RECURSIVE SumTenths(_)
SumTenths(I) ==
    IF I = {} THEN 0
    ELSE LET i == CHOOSE x \in I : TRUE IN Tenths(i) + SumTenths(I \ {i})

\* A run over newline-terminated records that returned its summaries.
Finished == ret = "Ok" /\ terminated

\* C1: the summary sequence has exactly one entry per distinct key of the
\* input, and its count is the number of records carrying that key.
C1_OneEntryPerKey ==
    Finished =>
        /\ {summaries[i].name : i \in 1..Len(summaries)} = InputKeys
        /\ Len(summaries) = Cardinality(InputKeys)
        /\ \A i \in 1..Len(summaries) :
              summaries[i].summary.count = Cardinality(Occurrences(summaries[i].name))

\* C2: the final cell of every key has min <= v <= max for every value v of
\* that key, and a sum equal to the sum of those values in tenths.
C2_MinMaxSum ==
    Finished =>
        \A i \in 1..Len(summaries) :
            LET occ == Occurrences(summaries[i].name)
                c   == summaries[i].summary
            IN  occ # {} =>
                  /\ \A j \in occ : c.min <= Tenths(j) /\ Tenths(j) <= c.max
                  /\ c.total = SumTenths(occ)

\* The records processed one at a time by the single-record path, each from
\* a zero-padded 64-byte copy.
RECURSIVE SingleRecordPath(_, _)
SingleRecordPath(t, recs) ==
    IF recs = <<>> THEN t
    ELSE LET line == RecordLine(Head(recs))
             w    == [j \in 1..WINDOW |->
                         IF j <= Len(line) THEN line[j]
                         ELSE IF j = Len(line) + 1 THEN NEWLINE ELSE 0]
         IN  SingleRecordPath(ProcessSingle(t, LineOf(w, Len(line))), Tail(recs))

\* C3: the per-key (min, max, sum, count) produced with batches of 4 are
\* those of processing the same records one at a time.
C3_BatchingEqualsSingle ==
    Finished => summaries = Drained(SingleRecordPath(EmptyMap, input))

\* C6 as claimed: each fatal condition (open, map, table allocation) ends
\* the run by returning a failure value, with no summary produced.
C6_FatalReturnsFailure ==
    fatal # "none" => (pc = "returned" /\ ret = "Err" /\ summaries = <<>>)

\* C6 as amended: a failure to open or to map the input returns a failure
\* value; a denied table allocation aborts the process without returning;
\* in each case no summary is produced.
C6_FatalEndsRun ==
    /\ fatal \in {"open", "mmap"} =>
          (pc = "returned" /\ ret = "Err" /\ summaries = <<>>)
    /\ fatal = "alloc" =>
          (pc = "aborted" /\ ret = "none" /\ summaries = <<>>)

\* The input could not be mapped and the run has returned.
C6_Witness == fatal = "mmap" /\ pc = "returned"

\* C8: when batched_process_lines returns, the cursor equals the mapped
\* length exactly.
C8_CursorAtEnd == pc = "drain" => cursor = Len(mmap)

\* C9: at every newline scan of the bulk loop a full 64-byte window remains
\* before the end of the mapping.
C9_BulkScanHasWindow ==
    (pc = "bulk" /\ Len(slices) < N) => cursor + WINDOW <= Len(mmap)

---------------------------------------------------------------------------
(* Calls of the pure functions.  Each specification below draws the        *)
(* arguments of one function from a bounded set and applies it once; the   *)
(* pipeline variables stay idle.                                           *)

Idle ==
    /\ input = <<>> /\ terminated = TRUE /\ mmap = <<>> /\ cursor = 0
    /\ pc = "idle" /\ slices = <<>> /\ temperatures = <<>>
    /\ summaries = <<>> /\ ret = "none" /\ fatal = "none"

IdleUnchanged ==
    UNCHANGED <<input, terminated, mmap, cursor, pc, slices, temperatures,
                summaries, ret, fatal>>

\* Two filler bytes that are no delimiters: 'a' and 'b'.
FillBytes == <<97, 98>>
FILL_A == FillBytes[1]
FILL_B == FillBytes[2]

(* memchr64_unchecked: windows whose first needle is at p, with a second   *)
(* needle at q (none when q = p) and, when dense, needles everywhere       *)
(* after q.                                                                *)
ChrWindow(needle, p, q, dense) ==
    [i \in 1..WINDOW |->
        IF (i - 1 = p) \/ (i - 1 = q) \/ (dense /\ i - 1 > q)
        THEN needle ELSE FILL_A]

InitMemchr ==
    /\ Idle
    /\ \E needle \in {NEWLINE, SEMICOLON} :
       \E p \in 0..(WINDOW - 1) : \E q \in p..(WINDOW - 1) : \E dense \in BOOLEAN :
          call = [fn |-> "memchr64_unchecked", needle |-> needle,
                  w |-> ChrWindow(needle, p, q, dense), done |-> FALSE, out |-> 0]

CallMemchr ==
    /\ call.fn = "memchr64_unchecked" /\ ~call.done
    /\ call' = [call EXCEPT !.done = TRUE,
                            !.out = memchr64_unchecked(call.w, call.needle)]
    /\ IdleUnchanged

SpecMemchr == InitMemchr /\ [][CallMemchr]_vars

(* memeq64_unchecked: a is la bytes 'a'; b is lb bytes 'a' with byte d     *)
(* replaced by 'b' (no byte when d = lb); each is followed in its window   *)
(* either by what follows an owned key (zeros up to 56 bytes, then the     *)
(* length) or by a filler byte.                                            *)
PadKinds == {"owned", "zeros", "same"}

WindowOf(name, kind) ==
    IF kind = "owned" THEN KeyWindow(InlineString_new(name))
    ELSE name \o Rep(IF kind = "zeros" THEN 0 ELSE FILL_A, WINDOW - Len(name))

InitMemeq ==
    /\ Idle
    /\ \E la \in 0..INLINE_STRING_SIZE :
       \E lb \in {l \in {la - 1, la, la + 1} : l >= 0 /\ l <= INLINE_STRING_SIZE} :
       \E d \in 0..lb : \E ka \in PadKinds : \E kb \in PadKinds :
          call = [fn |-> "memeq64_unchecked",
                  wa |-> WindowOf(Rep(FILL_A, la), ka), la |-> la,
                  wb |-> WindowOf([i \in 1..lb |-> IF i - 1 = d THEN FILL_B ELSE FILL_A], kb),
                  lb |-> lb, done |-> FALSE, out |-> FALSE]

\* StationNameKeyView::eq
CallMemeq ==
    /\ call.fn = "memeq64_unchecked" /\ ~call.done
    /\ call' = [call EXCEPT !.done = TRUE,
                            !.out = memeq64_unchecked(call.wa, call.la, call.wb, call.lb)]
    /\ IdleUnchanged

SpecMemeq == InitMemeq /\ [][CallMemeq]_vars

(* avg: cells with a sum in -MaxTotal..MaxTotal over 1..MaxCount readings. *)
MaxTotal == 40
MaxCount == 8

InitAvg ==
    /\ Idle
    /\ \E total \in (-MaxTotal)..MaxTotal : \E count \in 1..MaxCount :
          call = [fn |-> "avg",
                  s |-> [min |-> total \div count, max |-> -((-total) \div count),
                         total |-> total, count |-> count],
                  done |-> FALSE, out |-> 0]

CallAvg ==
    /\ call.fn = "avg" /\ ~call.done
    /\ call' = [call EXCEPT !.done = TRUE, !.out = avg(call.s)]
    /\ IdleUnchanged

SpecAvg == InitAvg /\ [][CallAvg]_vars

(* parse_temperature: records key;value over a few keys and every value    *)
(* [-]d[d].d.                                                              *)
\* "k", "ab", "a-", "-", "St"
ParseKeys == {<<107>>, <<FILL_A, FILL_B>>, <<FILL_A, MINUS>>, <<MINUS>>, <<83, 116>>}

InitParse ==
    /\ Idle
    /\ \E key \in ParseKeys : \E neg \in BOOLEAN : \E int \in 0..99 : \E frac \in 0..9 :
          call = [fn |-> "parse_temperature",
                  line |-> key \o <<SEMICOLON>> \o ValueText(neg, int, frac),
                  key |-> key, tenths |-> ValueTenths(neg, int, frac),
                  done |-> FALSE, out |-> 0]

CallParse ==
    /\ call.fn = "parse_temperature" /\ ~call.done
    /\ call' = [call EXCEPT !.done = TRUE, !.out = parse_temperature(call.line)]
    /\ IdleUnchanged

SpecParse == InitParse /\ [][CallParse]_vars

---------------------------------------------------------------------------
(* Claims about the pure functions.                                        *)

\* C10: for every 64-byte window that contains the target byte,
\* memchr64_unchecked returns the offset 0..63 of its first occurrence,
\* whichever half it is in and however many occurrences follow.
C10_FirstOccurrence ==
    call.done =>
        /\ call.out \in 0..(WINDOW - 1)
        /\ call.w[call.out + 1] = call.needle
        /\ \A j \in 1..call.out : call.w[j] # call.needle

\* The first occurrence is in the second half and another one follows it.
C10_Witness ==
    /\ call.done
    /\ call.out >= VEC
    /\ \E j \in (call.out + 2)..WINDOW : call.w[j] = call.needle

\* C7: view equality is true iff the lengths are equal and the bytes below
\* that length agree, whatever the bytes at or beyond the length are.
C7_EqualIffSameBytes ==
    call.done =>
        (call.out <=> (/\ call.la = call.lb
                       /\ \A i \in 1..call.la : call.wa[i] = call.wb[i]))

\* Two equal keys of the full inline capacity whose windows differ beyond
\* their length.
C7_Witness ==
    /\ call.done
    /\ call.out
    /\ call.la = INLINE_STRING_SIZE
    /\ \E i \in (INLINE_STRING_SIZE + 1)..WINDOW : call.wa[i] # call.wb[i]

\* C5 as amended: avg() is sum/count rounded to the nearest tenth, a value
\* half-way between two tenths going to the greater one.
C5_RoundHalfUp ==
    call.done =>
        LET d == call.out * call.s.count - call.s.total
        IN  (-call.s.count < 2 * d) /\ (2 * d <= call.s.count)

\* C5 as claimed: avg() is sum/count rounded to the nearest tenth, a value
\* half-way between two tenths going to the even one.
C5_RoundHalfEven ==
    call.done =>
        LET d == call.out * call.s.count - call.s.total
        IN  /\ (-call.s.count <= 2 * d) /\ (2 * d <= call.s.count)
            /\ ((2 * d = call.s.count \/ 2 * d = -call.s.count) => call.out % 2 = 0)

\* A negative sum half-way between two tenths has been averaged.
C5_Witness ==
    /\ call.done
    /\ call.s.total < 0
    /\ 2 * (call.out * call.s.count - call.s.total) = call.s.count

\* C4: parse_temperature returns the value of key;value in tenths, whatever
\* the bytes of the key are.
C4_ParsesValue == call.done => call.out = call.tenths

---------------------------------------------------------------------------
(* memchr64_unchecked on windows without the needle: p filler bytes, then  *)
(* a padding byte up to the end of the window (zeros: the tail loop's      *)
(* scratch copy of a last line of p bytes that has no newline).            *)

AbsentWindow(p, pad) == [i \in 1..WINDOW |-> IF i <= p THEN FILL_A ELSE pad]

InitMemchrAbsent ==
    /\ Idle
    /\ \E needle \in {NEWLINE, SEMICOLON} :
       \E p \in 0..WINDOW : \E pad \in {0, FILL_B} :
          call = [fn |-> "memchr64_unchecked", needle |-> needle,
                  w |-> AbsentWindow(p, pad), done |-> FALSE, out |-> 0]

SpecMemchrAbsent == InitMemchrAbsent /\ [][CallMemchr]_vars

\* C11: when the target byte occurs nowhere in the 64-byte window,
\* memchr64_unchecked does not return: no call on such a window completes
\* with an index.
C11_AbsentNeverReturns ==
    (/\ call.fn = "memchr64_unchecked"
     /\ \A i \in 1..WINDOW : call.w[i] # call.needle)
    => ~call.done

---------------------------------------------------------------------------
(* The hash codes of the table paths: a station x of 1..56 bytes that      *)
(* alternate two byte values, and a station y that is x with byte d        *)
(* replaced (x itself when d is the length).  x is inserted as an owned    *)
(* key into an empty map and looked up again from a record line; y is      *)
(* compared with the owned x as the lookups do.                            *)

HashBytes == {65, 195}
OtherByte == <<90>>

StationOf(len, a, b) == [i \in 1..len |-> IF i % 2 = 1 THEN a ELSE b]

\* The window at the first byte of the record station;1.0 followed by a
\* newline, as the bulk loop or the scratch copy presents it.
RecordWindow(station) ==
    LET line == station \o <<SEMICOLON>> \o ValueText(FALSE, 1, 0) \o <<NEWLINE>>
    IN  [j \in 1..WINDOW |-> IF j <= Len(line) THEN line[j] ELSE 0]

InitHash ==
    /\ Idle
    /\ \E len \in 1..INLINE_STRING_SIZE : \E a \in HashBytes : \E b \in HashBytes :
       \E d \in 0..len :
          LET x == StationOf(len, a, b)
          IN  call = [fn |-> "hash", x |-> x,
                      y |-> [i \in 1..len |-> IF i - 1 = d THEN OtherByte[1] ELSE x[i]],
                      done |-> FALSE, owned |-> U64(0), view |-> U64(0),
                      direct |-> U64(0), other |-> U64(0),
                      equal |-> FALSE, found |-> FALSE, got |-> FALSE]

\* insert(StationNameKey::new(x), ..) into the empty map, then
\* raw_entry().from_hash(hash_u64, eq) and get_mut(view) for a line of x,
\* and k.view() == view(y) with the hash of y.
CallHash ==
    /\ call.fn = "hash" /\ ~call.done
    /\ LET kx == StationNameKey_new(call.x)
           t  == insert(EmptyMap, kx, SummaryOf(10))
           lx == LineOf(RecordWindow(call.x), Len(call.x) + 4)
           ly == LineOf(RecordWindow(call.y), Len(call.y) + 4)
       IN  call' = [call EXCEPT
                      !.done   = TRUE,
                      !.owned  = KeyHash(kx),
                      !.view   = ViewHash(Station(lx)),
                      !.direct = hash_u64(call.x),
                      !.other  = hash_u64(Station(ly)),
                      !.equal  = memeq64_unchecked(KeyWindow(kx), kx.len, ly.w, ly.delim),
                      !.found  = from_hash(t, hash_u64(Station(lx)), lx) # {},
                      !.got    = get_mut(t, lx) # {}]
    /\ IdleUnchanged

SpecHash == InitHash /\ [][CallHash]_vars

\* C12: for every key of 1..56 bytes, the hash the table derives for the
\* owned key on insert and for a view on get_mut is hash_u64 of the same
\* bytes, unmixed; a key equal to it has the same hash code; and the entry
\* insert made is found by from_hash(hash_u64, eq) and by get_mut.
C12_PassThroughHash ==
    call.done =>
        /\ call.owned = call.direct
        /\ call.view = call.direct
        /\ call.equal => call.other = call.direct
        /\ call.found
        /\ call.got

\* A key of the full inline capacity was inserted, compared equal to a view
\* of the same bytes and was found again by its hash.
C12_Witness ==
    /\ call.done
    /\ Len(call.x) = INLINE_STRING_SIZE
    /\ call.equal
    /\ call.found
    /\ call.owned = call.direct

=============================================================================
